---- MODULE Spec2Model ----
(***************************************************************************)
(* Model of Scripts/Scraper.py: the EDGAR filing discovery and enrichment  *)
(* pipeline (main), its keyword matcher, its price feature computation     *)
(* (get_price_changes, also the variant of Backtesting/                    *)
(* Testing_Data_Scraper.py) and the merge of a run's results into the      *)
(* persisted CSV table.                                                    *)
(*                                                                         *)
(* Strings are sequences of tokens (a token is a character, or a run of    *)
(* characters that no operation looks inside).  A pandas cell is a pair    *)
(* <<kind, text>>: the Python type of the value and its canonical text.    *)
(***************************************************************************)
EXTENDS Integers, Sequences, FiniteSets, Bags, TLC

---------------------------------------------------------------------------
(* Bounds of the model. *)

\* longest list of dates read from selected_dates.csv
MaxDates == 2
\* longest price series handed to get_price_changes
MaxLen == 4
\* most rows in one run's result set, in the merge specification
MaxResults == 2
\* most runs that build the store before the two merges that are compared
MaxSeed == 1
\* longest document text handed to find_keywords on its own
MaxText == 3

---------------------------------------------------------------------------
(* Strings. *)

Range(s) == {s[i] : i \in 1..Len(s)}

\* str.lower() on one character
LowerChar(c) ==
    CASE c = "P" -> "p"
      [] c = "F" -> "f"
      [] c = "R" -> "r"
      [] c = "S" -> "s"
      [] c = "X" -> "x"
      [] OTHER -> c

\* str.lower()
Lower(s) == [i \in 1..Len(s) |-> LowerChar(s[i])]

\* kw in text (substring)
Contains(text, kw) ==
    \E i \in 0..(Len(text) - Len(kw)) :
        \A j \in 1..Len(kw) : text[i + j] = kw[j]

\* KEYWORDS, in the configured order: "private placement" ... "reverse stock
\* split", "PIPE financing" (the one entry with upper-case letters).  Each
\* phrase is abbreviated to the initials of its words, case kept.
KEYWORDS == << <<"p", "p">>, <<"r", "s">>, <<"P", "f">> >>

\* find_keywords: tl = text.lower(); [kw for kw in keywords if kw in tl]
find_keywords(text, keywords) ==
    LET tl == Lower(text)
    IN  SelectSeq(keywords, LAMBDA kw : Contains(tl, kw))

RECURSIVE JoinSeq(_, _)
\* sep.join(parts)
JoinSeq(parts, sep) ==
    IF parts = <<>> THEN <<>>
    ELSE IF Len(parts) = 1 THEN parts[1]
    ELSE parts[1] \o sep \o JoinSeq(Tail(parts), sep)

Digits == {"0", "1", "2", "3", "4", "5", "6", "7", "8", "9"}

\* bool(re.search(r"\d", s))
HasDigit(s) == \E i \in 1..Len(s) : s[i] \in Digits

---------------------------------------------------------------------------
(* Scalars of the price computation: the values hist["Close"].iloc[i] and  *)
(* the Python expressions over them can take.  A finite value is the       *)
(* fraction n/d (d > 0); "sqrt" is the square root of n/d.  Series values  *)
(* are numpy floats: a division by zero does not raise, it yields inf (or  *)
(* nan for 0/0).                                                           *)

None == [t |-> "None", n |-> 0, d |-> 1]
NaN == [t |-> "nan", n |-> 0, d |-> 1]
Num(k) == [t |-> "num", n |-> k, d |-> 1]
Frac(a, b) == [t |-> "num", n |-> a, d |-> b]
Inf(sign) == [t |-> "inf", n |-> sign, d |-> 1]
Fault == [t |-> "fault", n |-> 0, d |-> 1]

\* bool(v) of Python: None and 0 are false, nan is true
Truthy(v) == ~(v.t = "None") /\ ~(v.t = "num" /\ v.n = 0)

\* pd.isna(v)
IsNa(v) == v.t \in {"None", "nan"}

\* a - b
Sub(a, b) ==
    IF a.t = "None" \/ b.t = "None" THEN Fault
    ELSE IF a.t = "nan" \/ b.t = "nan" THEN NaN
    ELSE Frac(a.n * b.d - b.n * a.d, a.d * b.d)

\* a / b on numpy floats
Div(a, b) ==
    IF a.t = "None" \/ b.t = "None" THEN Fault
    ELSE IF a.t = "nan" \/ b.t = "nan" THEN NaN
    ELSE IF b.n = 0 THEN (IF a.n = 0 THEN NaN ELSE Inf(IF a.n > 0 THEN 1 ELSE -1))
    ELSE IF b.n > 0 THEN Frac(a.n * b.d, a.d * b.n)
    ELSE Frac(-(a.n * b.d), a.d * (-b.n))

\* the slice s[lo:hi] of Python on a 0-based series, 0 <= lo
Slice(s, lo, hi) ==
    LET h == IF hi > Len(s) THEN Len(s) ELSE hi
    IN  IF lo >= h THEN <<>> ELSE SubSeq(s, lo + 1, h)

Max(a, b) == IF a >= b THEN a ELSE b

RECURSIVE SumSeq(_)
SumSeq(s) == IF s = <<>> THEN 0 ELSE Head(s) + SumSeq(Tail(s))

\* the values of a window that pandas does not skip (skipna=True), as integers
Known(w) == LET k == SelectSeq(w, LAMBDA v : v.t = "num") IN [i \in 1..Len(k) |-> k[i].n]

\* Series.mean(): nan for an empty or all-nan window
Mean(w) ==
    LET k == Known(w)
    IN  IF k = <<>> THEN NaN ELSE Frac(SumSeq(k), Len(k))

\* Series.std() (ddof=1): nan for fewer than two known values
Std(w) ==
    LET k == Known(w)
        c == Len(k)
        sq == [i \in 1..c |-> k[i] * k[i]]
    IN  IF c < 2 THEN NaN
        ELSE [t |-> "sqrt", n |-> c * SumSeq(sq) - SumSeq(k) * SumSeq(k), d |-> c * (c - 1)]

FeatureNames == {"pct_1d", "pct_3d", "pct_before", "volatility_before", "volume_change"}

\* dates.index(filing_date), 0-based; -1 when filing_date not in dates
IndexOf(dates, filing_date) ==
    IF \E i \in 1..Len(dates) : dates[i] = filing_date
    THEN (CHOOSE i \in 1..Len(dates) :
              dates[i] = filing_date /\ \A j \in 1..(i - 1) : dates[j] # filing_date) - 1
    ELSE -1

\* hist["Close"].iloc[i] for a 0-based i
ILoc(s, i) == s[i + 1]

pct_3d_guarded(close_0, close_3d) ==
    IF Truthy(close_0) /\ Truthy(close_3d) THEN Div(Sub(close_3d, close_0), close_0) ELSE None

\* Scraper.py line 184: (close_3d - close_0) / close_0 if close_3d else None
pct_3d_of(close_0, close_3d) ==
    IF Truthy(close_3d) THEN Div(Sub(close_3d, close_0), close_0) ELSE None

\* Scraper.py lines 183, 185: (a - close_prev) / close_prev if close_prev [and a]
pct_prev_of(close_prev, a, needs_a) ==
    IF Truthy(close_prev) /\ (~needs_a \/ Truthy(a))
    THEN Div(Sub(a, close_prev), close_prev) ELSE None

\* Scraper.py lines 188-192
volume_change_of(volume, idx) ==
    LET avg_vol_prior == Mean(Slice(volume, Max(0, idx - 5), idx))
    IN  IF Truthy(avg_vol_prior) /\ ~IsNa(avg_vol_prior)
        THEN Div(ILoc(volume, idx), avg_vol_prior) ELSE None

\* get_price_changes of Scripts/Scraper.py on the downloaded series hist
get_price_changes(hist, filing_date) ==
    LET idx == IndexOf(hist.dates, filing_date)
        n == Len(hist.dates)
        close_prev == IF idx - 1 >= 0 THEN ILoc(hist.close, idx - 1) ELSE None
        close_0 == ILoc(hist.close, idx)
        close_1d == IF idx + 1 < n THEN ILoc(hist.close, idx + 1) ELSE None
        close_3d == IF idx + 3 < n THEN ILoc(hist.close, idx + 3) ELSE None
    IN  IF idx = -1 THEN [f \in FeatureNames |-> None]
        ELSE [pct_1d |-> pct_prev_of(close_prev, close_1d, TRUE),
              pct_3d |-> pct_3d_of(close_0, close_3d),
              pct_before |-> pct_prev_of(close_prev, close_0, FALSE),
              volatility_before |-> Std(Slice(hist.close, Max(0, idx - 5), idx)),
              volume_change |-> volume_change_of(hist.volume, idx)]

\* get_price_changes of Backtesting/Testing_Data_Scraper.py: pct_1d, pct_3d
label_price_changes(hist, filing_date) ==
    LET idx == IndexOf(hist.dates, filing_date)
        n == Len(hist.dates)
        close_prev == IF idx - 1 >= 0 THEN ILoc(hist.close, idx - 1) ELSE None
        close_0 == IF idx < n THEN ILoc(hist.close, idx) ELSE None
        close_1d == IF idx + 1 < n THEN ILoc(hist.close, idx + 1) ELSE None
        close_3d == IF idx + 3 < n THEN ILoc(hist.close, idx + 3) ELSE None
    IN  IF idx = -1 THEN [pct_1d |-> None, pct_3d |-> None]
        ELSE [pct_1d |-> pct_prev_of(close_prev, close_1d, TRUE),
              pct_3d |-> pct_3d_guarded(close_0, close_3d)]

---------------------------------------------------------------------------
(* The result table.  An in-memory cell is <<kind, text>>; the persisted   *)
(* CSV holds the text alone.                                               *)

Columns == <<"ticker", "form", "filingDate", "keywords", "summary",
             "volatility_before", "summary_length", "has_numbers",
             "num_keywords_matched", "market_cap", "sector">>

ColumnSet == Range(Columns)

StrCell(s) == <<"str", s>>
NumCell(k) == <<"num", <<ToString(k)>> >>
BoolCell(b) == <<"bool", IF b THEN <<"True">> ELSE <<"False">> >>
NoneCell == <<"None", <<>> >>
NaNCell == <<"NaN", <<>> >>

\* str(datetime.date): the ISO text of day d of the modelled month
IsoDate(d) == <<"2024-03-0", ToString(d)>>

\* a datetime.date object
DateCell(d) == <<"date", IsoDate(d)>>

\* the cell of a price feature
FeatureCell(v) ==
    CASE v.t = "None" -> NoneCell
      [] v.t = "nan" -> NaNCell
      [] v.t = "sqrt" -> <<"num", <<"sqrt", ToString(v.n), "/", ToString(v.d)>> >>
      [] OTHER -> <<"num", <<ToString(v.n), "/", ToString(v.d)>> >>

\* DataFrame.to_csv on one cell: a missing value is written as the empty field
to_csv_cell(c) == IF c[1] \in {"None", "NaN"} THEN <<>> ELSE c[2]

\* the dtype pd.read_csv infers for a column (no parse_dates: dates stay text)
read_kind(col) ==
    CASE col \in {"volatility_before", "summary_length", "num_keywords_matched",
                  "market_cap"} -> "num"
      [] col = "has_numbers" -> "bool"
      [] OTHER -> "str"

\* pd.read_csv on one field: the empty field is read as nan
read_csv_cell(col, text) == IF text = <<>> THEN NaNCell ELSE <<read_kind(col), text>>

to_csv(df) == [i \in 1..Len(df) |-> [c \in ColumnSet |-> to_csv_cell(df[i][c])]]

read_csv(rows) == [i \in 1..Len(rows) |-> [c \in ColumnSet |-> read_csv_cell(c, rows[i][c])]]

\* what DataFrame.duplicated compares: None and nan are one missing value
dup_key(row) == [c \in ColumnSet |-> IF row[c][1] \in {"None", "NaN"} THEN NaNCell ELSE row[c]]

RECURSIVE drop_from(_, _)
drop_from(df, seen) ==
    IF df = <<>> THEN <<>>
    ELSE IF dup_key(Head(df)) \in seen THEN drop_from(Tail(df), seen)
    ELSE <<Head(df)>> \o drop_from(Tail(df), seen \cup {dup_key(Head(df))})

\* DataFrame.drop_duplicates(): keeps the first of each group of equal rows
drop_duplicates(df) == drop_from(df, {})

Absent == [exists |-> FALSE, rows |-> <<>>]

\* Scraper.py lines 274-277: the table written for the run's frame df
Merge(store, df) ==
    LET merged == IF store.exists
                  THEN drop_duplicates(read_csv(store.rows) \o df)
                  ELSE df
    IN  [exists |-> TRUE, rows |-> to_csv(merged)]

\* Scraper.py lines 243-255: the row appended for a matched filing
ResultRow(ticker, entry, matched, vol_before, summary_text, info) ==
    [ticker |-> StrCell(ticker),
     form |-> StrCell(entry.form),
     filingDate |-> DateCell(entry.filingDate),
     keywords |-> StrCell(JoinSeq(matched, <<";">>)),
     summary |-> StrCell(summary_text),
     volatility_before |-> FeatureCell(vol_before),
     summary_length |-> NumCell(Len(summary_text)),
     has_numbers |-> BoolCell(HasDigit(summary_text)),
     num_keywords_matched |-> NumCell(Len(matched)),
     market_cap |-> info.marketCap,
     sector |-> info.sector]

---------------------------------------------------------------------------
(* What the external services can return. *)

\* the days a date list can name
DatePool == {1, 2}

\* date_source = None
NoDate == 0

RECURSIVE SeqsUpTo(_, _)
\* the sequences over S of length at most k
SeqsUpTo(S, k) ==
    IF k = 0 THEN {<<>>}
    ELSE LET shorter == SeqsUpTo(S, k - 1)
         IN  shorter \cup {Append(q, x) : q \in {r \in shorter : Len(r) = k - 1}, x \in S}

\* the "date" column of selected_dates.csv
DateFiles == SeqsUpTo(DatePool, MaxDates)

Entry(cik, form, d, filename) ==
    [cik |-> cik, form |-> form, filingDate |-> d, filename |-> filename]

\* parse_index(fetch_master_index(date)): the allow-listed entries of a day's index
IndexPool(d) ==
    {<<>>,
     <<Entry("0000000001", <<"8-K">>, d, "a.txt")>>,
     <<Entry("0000000001", <<"8-K">>, d, "a.txt"), Entry("0000000002", <<"4">>, d, "b.txt")>>}

\* company_tickers.json: two tickers of one company
RegistryData == <<[ticker |-> <<"googl">>, cik_str |-> "1"],
                  [ticker |-> <<"GOOG">>, cik_str |-> "1"]>>

\* str(cik_str).zfill(10)
ZFill10(c) == IF c = "1" THEN "0000000001" ELSE c

\* str.upper() on a ticker
Upper(tk) == IF tk = <<"googl">> THEN <<"GOOGL">> ELSE tk

\* get_cik_ticker_map()[1]: cik -> ticker, the last ticker of a cik wins
CikToTicker(data) ==
    {<<ZFill10(data[i].cik_str), Upper(data[i].ticker)>> : i \in
        {i \in 1..Len(data) : \A j \in (i + 1)..Len(data) : data[j].cik_str # data[i].cik_str}}

\* cik_to_ticker.get(cik, "")
TickerOf(map, cik) ==
    IF \E m \in map : m[1] = cik THEN (CHOOSE m \in map : m[1] = cik)[2] ELSE <<>>

\* the filing documents fetch_document_text can return
TextPool == {<<"x", "y">>, <<"x", "p", "p">>, <<"P", "P", "x">>, <<"P", "f">>}

\* response.choices[0].message.content.strip()
SummaryPool == {<<"s", "1">>}

\* yf.download(ticker, start, end) around the filing date: no rows for the
\* unresolved ticker "", else a series with the filing date in it
HistPool(tk, d) ==
    IF tk = <<>> THEN {[dates |-> <<>>, close |-> <<>>, volume |-> <<>>]}
    ELSE {[dates |-> <<d - 1, d, d + 1>>,
           close |-> <<Num(1), Num(2), Num(2)>>,
           volume |-> <<Num(1), Num(2), Num(1)>>]}

\* yf.Ticker(ticker).info, read with .get(key, None): no keys for the ticker ""
InfoPool(tk) ==
    IF tk = <<>> THEN {[marketCap |-> NoneCell, sector |-> NoneCell]}
    ELSE {[marketCap |-> NumCell(5), sector |-> StrCell(<<"Tech">>)]}

---------------------------------------------------------------------------
(* State. *)

VARIABLES
    date_source,    \* main's argument: NoDate or a day
    date_list,      \* the dates to process
    pc,             \* position in main
    di,             \* 1-based position of date_str in date_list
    entries,        \* parse_index result for the current date
    ei,             \* 1-based position of entry in entries
    cik_to_ticker,  \* the registry of the current date
    text, matched, ticker, price_feats, summary_text,   \* locals of the loop body
    all_results,    \* rows of this run
    store,          \* the persisted CSV: [exists, rows]
    fault,          \* the exception that ended the run, "" if none
    iter,           \* what the current pass of the filing loop has done
    idx_log,        \* outcome of the index fetch of each date position so far
    touched,        \* date positions with a registry or document request
    paced,          \* time.sleep has run since the last document request
    nfetch,         \* document requests of this run
    hist, fdate, feats, lfeats, ppc,    \* price computation on its own
    sAB, sBA, mA, mB, mpc, seeds,       \* two orders of two merges
    ktext, kwlist, kfound, kpc          \* keyword matching on its own

mainVars == <<date_source, date_list, pc, di, entries, ei, cik_to_ticker, text, matched,
              ticker, price_feats, summary_text, all_results, store, fault, iter,
              idx_log, touched, paced, nfetch>>
priceVars == <<hist, fdate, feats, lfeats, ppc>>
mergeVars == <<sAB, sBA, mA, mB, mpc, seeds>>
matchVars == <<ktext, kwlist, kfound, kpc>>
vars == <<mainVars, priceVars, mergeVars, matchVars>>

NoFeats == [f \in FeatureNames |-> None]
NoHist == [dates |-> <<>>, close |-> <<>>, volume |-> <<>>]

\* a pass of the filing loop that has done nothing yet
FreshIter(ok) ==
    [fetched |-> ok, calls |-> {}, failed |-> {}, appended |-> FALSE,
     rows0 |-> Len(all_results), ended |-> IF ok THEN "running" ELSE "except"]

MainStart ==
    /\ date_source \in {NoDate} \cup DatePool
    /\ date_list = <<>>
    /\ pc = "start"
    /\ di = 1
    /\ entries = <<>>
    /\ ei = 1
    /\ cik_to_ticker = {}
    /\ text = <<>>
    /\ matched = <<>>
    /\ ticker = <<>>
    /\ price_feats = NoFeats
    /\ summary_text = <<>>
    /\ all_results = <<>>
    /\ store = Absent
    /\ fault = ""
    /\ iter = [fetched |-> FALSE, calls |-> {}, failed |-> {}, appended |-> FALSE,
               rows0 |-> 0, ended |-> "none"]
    /\ idx_log = <<>>
    /\ touched = {}
    /\ paced = FALSE
    /\ nfetch = 0

PriceIdle ==
    /\ hist = NoHist
    /\ fdate = 0
    /\ feats = NoFeats
    /\ lfeats = [pct_1d |-> None, pct_3d |-> None]
    /\ ppc = "idle"

MergeIdle ==
    /\ sAB = Absent
    /\ sBA = Absent
    /\ mA = <<>>
    /\ mB = <<>>
    /\ mpc = "idle"
    /\ seeds = 0

MatchIdle ==
    /\ ktext = <<>>
    /\ kwlist = <<>>
    /\ kfound = <<>>
    /\ kpc = "idle"

Init == MainStart /\ PriceIdle /\ MergeIdle /\ MatchIdle

---------------------------------------------------------------------------
(* main, Scraper.py lines 199-278. *)

\* lines 204-208
ReadDates ==
    /\ UNCHANGED <<priceVars, mergeVars, matchVars>>
    /\ pc = "start"
    /\ \E f \in DateFiles :
          date_list' = IF date_source = NoDate THEN f ELSE <<date_source>>
    /\ pc' = "for_date"
    /\ UNCHANGED <<date_source, di, entries, ei, cik_to_ticker, text, matched, ticker,
                   price_feats, summary_text, all_results, store, fault, iter, idx_log,
                   touched, paced, nfetch>>

\* the handler of line 214 leaving the loop (break for continue)
AfterIndexError_break ==
    /\ di' = Len(date_list) + 1
    /\ pc' = "for_date"
    /\ UNCHANGED <<entries, touched>>

\* what the handler of line 214 does after an HTTPError of fetch_master_index
AfterIndexError ==
    /\ di' = di + 1
    /\ pc' = "for_date"
    /\ UNCHANGED <<entries, touched>>

\* lines 211-216: the index request answers with an error status
FetchIndexHttpError ==
    /\ UNCHANGED <<priceVars, mergeVars, matchVars>>
    /\ pc = "for_date"
    /\ di <= Len(date_list)
    /\ idx_log' = Append(idx_log, "http")
    /\ AfterIndexError
    /\ UNCHANGED <<date_source, date_list, ei, cik_to_ticker, text, matched, ticker,
                   price_feats, summary_text, all_results, store, fault, iter, paced,
                   nfetch>>

\* lines 211-219: the index is fetched and parsed
FetchIndexOk ==
    /\ UNCHANGED <<priceVars, mergeVars, matchVars>>
    /\ pc = "for_date"
    /\ di <= Len(date_list)
    /\ \E es \in IndexPool(date_list[di]) : entries' = es
    /\ idx_log' = Append(idx_log, "ok")
    /\ pc' = "registry"
    /\ UNCHANGED <<date_source, date_list, di, ei, cik_to_ticker, text, matched, ticker,
                   price_feats, summary_text, all_results, store, fault, iter, touched,
                   paced, nfetch>>

\* line 213: requests.get raises something that is no HTTPError (no connection)
FetchIndexUncaught ==
    /\ UNCHANGED <<priceVars, mergeVars, matchVars>>
    /\ pc = "for_date"
    /\ di <= Len(date_list)
    /\ idx_log' = Append(idx_log, "uncaught")
    /\ pc' = "crashed"
    /\ fault' = "ConnectionError"
    /\ UNCHANGED <<date_source, date_list, di, entries, ei, cik_to_ticker, text, matched,
                   ticker, price_feats, summary_text, all_results, store, iter, touched,
                   paced, nfetch>>

\* line 211: the date list is exhausted
EndDates ==
    /\ UNCHANGED <<priceVars, mergeVars, matchVars>>
    /\ pc = "for_date"
    /\ di > Len(date_list)
    /\ pc' = "frame"
    /\ UNCHANGED <<date_source, date_list, di, entries, ei, cik_to_ticker, text, matched,
                   ticker, price_feats, summary_text, all_results, store, fault, iter,
                   idx_log, touched, paced, nfetch>>

\* line 220: the registry is fetched for the date
FetchRegistryOk ==
    /\ UNCHANGED <<priceVars, mergeVars, matchVars>>
    /\ pc = "registry"
    /\ cik_to_ticker' = CikToTicker(RegistryData)
    /\ touched' = touched \cup {di}
    /\ ei' = 1
    /\ pc' = "for_entry"
    /\ UNCHANGED <<date_source, date_list, di, entries, text, matched, ticker, price_feats,
                   summary_text, all_results, store, fault, iter, idx_log, paced, nfetch>>

\* line 220, outside every try: raise_for_status of the registry request raises
FetchRegistryFail ==
    /\ UNCHANGED <<priceVars, mergeVars, matchVars>>
    /\ pc = "registry"
    /\ touched' = touched \cup {di}
    /\ pc' = "crashed"
    /\ fault' = "HTTPError"
    /\ UNCHANGED <<date_source, date_list, di, entries, ei, cik_to_ticker, text, matched,
                   ticker, price_feats, summary_text, all_results, store, iter, idx_log,
                   paced, nfetch>>

\* lines 257-258: except Exception: continue (time.sleep of line 256 is skipped)
Except(it) ==
    /\ iter' = [it EXCEPT !.ended = "except"]
    /\ ei' = ei + 1
    /\ pc' = "for_entry"

\* line 225: the document request answers with an error status
FetchDocumentFail ==
    /\ UNCHANGED <<priceVars, mergeVars, matchVars>>
    /\ pc = "for_entry"
    /\ ei <= Len(entries)
    /\ nfetch' = nfetch + 1
    /\ paced' = FALSE
    /\ touched' = touched \cup {di}
    /\ Except(FreshIter(FALSE))
    /\ UNCHANGED <<date_source, date_list, di, entries, cik_to_ticker, text, matched,
                   ticker, price_feats, summary_text, all_results, store, fault, idx_log>>

\* line 225: the document is fetched
FetchDocumentOk ==
    /\ UNCHANGED <<priceVars, mergeVars, matchVars>>
    /\ pc = "for_entry"
    /\ ei <= Len(entries)
    /\ \E t \in TextPool : text' = t
    /\ nfetch' = nfetch + 1
    /\ paced' = FALSE
    /\ touched' = touched \cup {di}
    /\ iter' = FreshIter(TRUE)
    /\ pc' = "match"
    /\ UNCHANGED <<date_source, date_list, di, entries, ei, cik_to_ticker, matched, ticker,
                   price_feats, summary_text, all_results, store, fault, idx_log>>

\* line 222: the entries of the date are exhausted
EndEntries ==
    /\ UNCHANGED <<priceVars, mergeVars, matchVars>>
    /\ pc = "for_entry"
    /\ ei > Len(entries)
    /\ di' = di + 1
    /\ pc' = "for_date"
    /\ UNCHANGED <<date_source, date_list, entries, ei, cik_to_ticker, text, matched,
                   ticker, price_feats, summary_text, all_results, store, fault, iter,
                   idx_log, touched, paced, nfetch>>

\* line 227 without its test: every fetched document is enriched
Enriches_always(m) == TRUE

\* line 227: if matched
Enriches(m) == m # <<>>

\* lines 226-227
MatchKeywords ==
    /\ UNCHANGED <<priceVars, mergeVars, matchVars>>
    /\ pc = "match"
    /\ matched' = find_keywords(text, KEYWORDS)
    /\ pc' = IF Enriches(matched') THEN "lookup" ELSE "sleep"
    /\ UNCHANGED <<date_source, date_list, di, entries, ei, cik_to_ticker, text, ticker,
                   price_feats, summary_text, all_results, store, fault, iter, idx_log,
                   touched, paced, nfetch>>

\* line 228
LookupTicker ==
    /\ UNCHANGED <<priceVars, mergeVars, matchVars>>
    /\ pc = "lookup"
    /\ ticker' = TickerOf(cik_to_ticker, entries[ei].cik)
    /\ iter' = [iter EXCEPT !.calls = @ \cup {"ticker"}]
    /\ pc' = "price"
    /\ UNCHANGED <<date_source, date_list, di, entries, ei, cik_to_ticker, text, matched,
                   price_feats, summary_text, all_results, store, fault, idx_log, touched,
                   paced, nfetch>>

\* lines 231-233: the price series is downloaded and the features computed
PriceOk ==
    /\ UNCHANGED <<priceVars, mergeVars, matchVars>>
    /\ pc = "price"
    /\ \E h \in HistPool(ticker, entries[ei].filingDate) :
          price_feats' = get_price_changes(h, entries[ei].filingDate)
    /\ iter' = [iter EXCEPT !.calls = @ \cup {"price"}]
    /\ pc' = "summ"
    /\ UNCHANGED <<date_source, date_list, di, entries, ei, cik_to_ticker, text, matched,
                   ticker, summary_text, all_results, store, fault, idx_log, touched,
                   paced, nfetch>>

\* line 231: yf.download (or the computation on its result) raises
PriceRaise ==
    /\ UNCHANGED <<priceVars, mergeVars, matchVars>>
    /\ pc = "price"
    /\ Except([iter EXCEPT !.calls = @ \cup {"price"}, !.failed = @ \cup {"price"}])
    /\ UNCHANGED <<date_source, date_list, di, entries, cik_to_ticker, text, matched, ticker,
                   price_feats, summary_text, all_results, store, fault, idx_log, touched,
                   paced, nfetch>>

\* line 236, summarize_text lines 148-155: the service answers
SummarizeOk ==
    /\ UNCHANGED <<priceVars, mergeVars, matchVars>>
    /\ pc = "summ"
    /\ \E content \in SummaryPool : summary_text' = content
    /\ iter' = [iter EXCEPT !.calls = @ \cup {"summ"}]
    /\ pc' = "info"
    /\ UNCHANGED <<date_source, date_list, di, entries, ei, cik_to_ticker, text, matched,
                   ticker, price_feats, all_results, store, fault, idx_log, touched, paced,
                   nfetch>>

\* line 236, summarize_text lines 156-157: except Exception: return ""
SummarizeFail ==
    /\ UNCHANGED <<priceVars, mergeVars, matchVars>>
    /\ pc = "summ"
    /\ summary_text' = <<>>
    /\ iter' = [iter EXCEPT !.calls = @ \cup {"summ"}, !.failed = @ \cup {"summ"}]
    /\ pc' = "info"
    /\ UNCHANGED <<date_source, date_list, di, entries, ei, cik_to_ticker, text, matched,
                   ticker, price_feats, all_results, store, fault, idx_log, touched, paced,
                   nfetch>>

\* lines 239-255: the fundamentals are read and the row is appended
InfoOk ==
    /\ UNCHANGED <<priceVars, mergeVars, matchVars>>
    /\ pc = "info"
    /\ \E info \in InfoPool(ticker) :
          all_results' = Append(all_results,
              ResultRow(ticker, entries[ei], matched, price_feats.volatility_before,
                        summary_text, info))
    /\ iter' = [iter EXCEPT !.calls = @ \cup {"info"}, !.appended = TRUE]
    /\ pc' = "sleep"
    /\ UNCHANGED <<date_source, date_list, di, entries, ei, cik_to_ticker, text, matched,
                   ticker, price_feats, summary_text, store, fault, idx_log, touched, paced,
                   nfetch>>

\* line 239: yf.Ticker(ticker).info raises
InfoRaise ==
    /\ UNCHANGED <<priceVars, mergeVars, matchVars>>
    /\ pc = "info"
    /\ Except([iter EXCEPT !.calls = @ \cup {"info"}, !.failed = @ \cup {"info"}])
    /\ UNCHANGED <<date_source, date_list, di, entries, cik_to_ticker, text, matched, ticker,
                   price_feats, summary_text, all_results, store, fault, idx_log, touched,
                   paced, nfetch>>

\* line 256: time.sleep(0.2), then the next entry
Sleep ==
    /\ UNCHANGED <<priceVars, mergeVars, matchVars>>
    /\ pc = "sleep"
    /\ paced' = TRUE
    /\ iter' = [iter EXCEPT !.ended = "slept"]
    /\ ei' = ei + 1
    /\ pc' = "for_entry"
    /\ UNCHANGED <<date_source, date_list, di, entries, cik_to_ticker, text, matched, ticker,
                   price_feats, summary_text, all_results, store, fault, idx_log, touched,
                   nfetch>>

\* lines 260-273: DataFrame(all_results) and the column selection, which raises
\* KeyError on the frame of an empty list (it has no columns)
BuildFrame ==
    /\ UNCHANGED <<priceVars, mergeVars, matchVars>>
    /\ pc = "frame"
    /\ IF all_results = <<>>
       THEN pc' = "crashed" /\ fault' = "KeyError"
       ELSE pc' = "write" /\ fault' = fault
    /\ UNCHANGED <<date_source, date_list, di, entries, ei, cik_to_ticker, text, matched,
                   ticker, price_feats, summary_text, all_results, store, iter, idx_log,
                   touched, paced, nfetch>>

\* lines 274-277: merge with the persisted table and write it back
WriteBack ==
    /\ UNCHANGED <<priceVars, mergeVars, matchVars>>
    /\ pc = "write"
    /\ store' = Merge(store, all_results)
    /\ pc' = "done"
    /\ UNCHANGED <<date_source, date_list, di, entries, ei, cik_to_ticker, text, matched,
                   ticker, price_feats, summary_text, all_results, fault, iter, idx_log,
                   touched, paced, nfetch>>

Next ==
    \/ ReadDates
    \/ FetchIndexHttpError
    \/ FetchIndexOk
    \/ FetchIndexUncaught
    \/ EndDates
    \/ FetchRegistryOk
    \/ FetchRegistryFail
    \/ FetchDocumentFail
    \/ FetchDocumentOk
    \/ EndEntries
    \/ MatchKeywords
    \/ LookupTicker
    \/ PriceOk
    \/ PriceRaise
    \/ SummarizeOk
    \/ SummarizeFail
    \/ InfoOk
    \/ InfoRaise
    \/ Sleep
    \/ BuildFrame
    \/ WriteBack

Spec == Init /\ [][Next]_vars

---------------------------------------------------------------------------
(* The price computation on its own: get_price_changes of both scripts on  *)
(* every short series.                                                     *)

MainIdle ==
    /\ date_source = NoDate
    /\ date_list = <<>>
    /\ pc = "idle"
    /\ di = 1
    /\ entries = <<>>
    /\ ei = 1
    /\ cik_to_ticker = {}
    /\ text = <<>>
    /\ matched = <<>>
    /\ ticker = <<>>
    /\ price_feats = NoFeats
    /\ summary_text = <<>>
    /\ all_results = <<>>
    /\ store = Absent
    /\ fault = ""
    /\ iter = [fetched |-> FALSE, calls |-> {}, failed |-> {}, appended |-> FALSE,
               rows0 |-> 0, ended |-> "none"]
    /\ idx_log = <<>>
    /\ touched = {}
    /\ paced = FALSE
    /\ nfetch = 0

\* closing prices and volumes a series can hold
ClosePool == {NaN, Num(0), Num(1), Num(2)}
VolumePool == {NaN, Num(0), Num(1)}

\* the series of k trading days 1..k
SeriesOfLen(k) ==
    {[dates |-> [i \in 1..k |-> i], close |-> c, volume |-> v] :
        c \in [1..k -> ClosePool], v \in [1..k -> VolumePool]}

PriceStart ==
    /\ \E k \in 0..MaxLen : hist \in SeriesOfLen(k)
    /\ fdate \in 1..(MaxLen + 1)
    /\ feats = NoFeats
    /\ lfeats = [pct_1d |-> None, pct_3d |-> None]
    /\ ppc = "ready"

\* Scripts/Scraper.py get_price_changes
ComputeFeatures ==
    /\ UNCHANGED <<mainVars, mergeVars, matchVars>>
    /\ ppc = "ready"
    /\ feats' = get_price_changes(hist, fdate)
    /\ ppc' = "computed"
    /\ UNCHANGED <<hist, fdate, lfeats>>

\* Backtesting/Testing_Data_Scraper.py get_price_changes
ComputeLabels ==
    /\ UNCHANGED <<mainVars, mergeVars, matchVars>>
    /\ ppc = "computed"
    /\ lfeats' = label_price_changes(hist, fdate)
    /\ ppc' = "done"
    /\ UNCHANGED <<hist, fdate, feats>>

InitPrice == MainIdle /\ PriceStart /\ MergeIdle /\ MatchIdle

NextPrice ==
    \/ ComputeFeatures
    \/ ComputeLabels

SpecPrice == InitPrice /\ [][NextPrice]_vars

---------------------------------------------------------------------------
(* The merge on its own: a store built by earlier runs, then the results   *)
(* of two runs merged in both orders.                                      *)

\* rows a run can append (lines 243-255)
RowPool ==
    {ResultRow(<<"GOOG">>, Entry("0000000001", <<"8-K">>, 1, "a.txt"), <<KEYWORDS[1]>>,
               Std(<<Num(1)>>), <<"s", "1">>,
               [marketCap |-> NumCell(5), sector |-> StrCell(<<"Tech">>)]),
     ResultRow(<<"GOOG">>, Entry("0000000001", <<"8-K">>, 1, "a.txt"), <<KEYWORDS[1]>>,
               Std(<<Num(1)>>), <<>>,
               [marketCap |-> NumCell(5), sector |-> StrCell(<<"Tech">>)]),
     ResultRow(<<>>, Entry("0000000002", <<"4">>, 2, "b.txt"), <<KEYWORDS[1], KEYWORDS[2]>>,
               None, <<"s", "1">>,
               [marketCap |-> NoneCell, sector |-> NoneCell])}

\* all_results of a run that reaches the write-back: at least one row
ResultSets == SeqsUpTo(RowPool, MaxResults) \ {<<>>}

MergeStart ==
    /\ sAB = Absent
    /\ sBA = Absent
    /\ mA = <<>>
    /\ mB = <<>>
    /\ mpc = "seed"
    /\ seeds = 0

\* an earlier run writes its results
SeedRun ==
    /\ UNCHANGED <<mainVars, priceVars, matchVars>>
    /\ mpc = "seed"
    /\ seeds < MaxSeed
    /\ \E r \in ResultSets :
          /\ sAB' = Merge(sAB, r)
          /\ sBA' = Merge(sBA, r)
    /\ seeds' = seeds + 1
    /\ UNCHANGED <<mA, mB, mpc>>

\* the results of the two runs to come
ChooseRuns ==
    /\ UNCHANGED <<mainVars, priceVars, matchVars>>
    /\ mpc = "seed"
    /\ \E a \in ResultSets, b \in ResultSets :
          /\ mA' = a
          /\ mB' = b
    /\ mpc' = "first"
    /\ UNCHANGED <<sAB, sBA, seeds>>

\* run A writes into one copy of the store, run B into the other
MergeFirst ==
    /\ UNCHANGED <<mainVars, priceVars, matchVars>>
    /\ mpc = "first"
    /\ sAB' = Merge(sAB, mA)
    /\ sBA' = Merge(sBA, mB)
    /\ mpc' = "second"
    /\ UNCHANGED <<mA, mB, seeds>>

\* then the other run writes
MergeSecond ==
    /\ UNCHANGED <<mainVars, priceVars, matchVars>>
    /\ mpc = "second"
    /\ sAB' = Merge(sAB, mB)
    /\ sBA' = Merge(sBA, mA)
    /\ mpc' = "done"
    /\ UNCHANGED <<mA, mB, seeds>>

InitMerge == MainIdle /\ PriceIdle /\ MergeStart /\ MatchIdle

NextMerge ==
    \/ SeedRun
    \/ ChooseRuns
    \/ MergeFirst
    \/ MergeSecond

SpecMerge == InitMerge /\ [][NextMerge]_vars

---------------------------------------------------------------------------
(* The keyword matcher on its own: find_keywords on every short text and   *)
(* every short keyword list.                                               *)

\* the characters of a document text
TextChars == {"p", "P", "f", "x"}

\* phrases a configured list can hold: lower-case ones and one with an
\* upper-case letter, as "PIPE financing" in KEYWORDS
KeywordPool == {<<"p", "p">>, <<"f">>, <<"P", "f">>}

\* keyword lists: KEYWORDS itself and the lists of at most two pool phrases
KeywordLists ==
    {KEYWORDS} \cup {q \in SeqsUpTo(KeywordPool, 2) : \A i, j \in 1..Len(q) : q[i] = q[j] => i = j}

MatchStart ==
    /\ ktext \in SeqsUpTo(TextChars, MaxText)
    /\ kwlist \in KeywordLists
    /\ kfound = <<>>
    /\ kpc = "ready"

\* matched = find_keywords(text, keywords)
FindKeywords ==
    /\ UNCHANGED <<mainVars, priceVars, mergeVars>>
    /\ kpc = "ready"
    /\ kfound' = find_keywords(ktext, kwlist)
    /\ kpc' = "done"
    /\ UNCHANGED <<ktext, kwlist>>

InitMatch == MainIdle /\ PriceIdle /\ MergeIdle /\ MatchStart

NextMatch ==
    \/ FindKeywords

SpecMatch == InitMatch /\ [][NextMatch]_vars

---------------------------------------------------------------------------
(* Properties. *)

\* the current pass of the filing loop has fetched its document and computed
\* the keyword match of that document
MatchComputed == iter.fetched /\ pc # "match"

\* the pass is over: the loop is at its head again (or past it)
PassOver == iter.ended \in {"slept", "except"}

\* C1: a filing whose document was fetched and matched a keyword, and whose
\* market-data call (price download, fundamentals) or summarization call failed,
\* is still appended to the run's results once its pass is over.
C1_EnrichmentFailureKeepsFiling ==
    (MatchComputed /\ matched # <<>> /\ iter.failed # {} /\ PassOver)
        => (iter.appended /\ Len(all_results) = iter.rows0 + 1)

\* C2: a failure while processing a filing leaves the loop at the next filing of
\* the date (and, past the last filing, at the next date), and a run whose last
\* filing pass failed is not ended by an error of the frame construction: it
\* reaches the write-back.
C2_FilingFailureIsIsolated ==
    /\ [][(iter'.ended = "except" /\ (iter.ended # "except" \/ nfetch' # nfetch))
            => (pc' = "for_entry" /\ ei' = ei + 1 /\ di' = di /\ fault' = "")]_vars
    /\ [](iter.ended = "except" => ~(pc = "crashed" /\ fault = "KeyError"))

\* C3: an index request answered with an error status skips the whole date (no
\* registry request, no document request, no row for it) and leaves the loop at
\* the next date of the list.
C3_IndexErrorSkipsDate ==
    /\ [][(Len(idx_log') = Len(idx_log) + 1 /\ idx_log'[Len(idx_log')] = "http")
            => /\ pc' = "for_date"
               /\ di' = di + 1
               /\ date_list' = date_list
               /\ touched' = touched
               /\ nfetch' = nfetch
               /\ all_results' = all_results
               /\ fault' = ""]_vars
    /\ [](\A k \in 1..Len(idx_log) : idx_log[k] = "http" => k \notin touched)

\* C3 witness: a date whose index failed was skipped and a later date of the
\* list had its documents requested.
C3_Witness ==
    \E k \in 1..Len(idx_log) :
        /\ idx_log[k] = "http"
        /\ k \notin touched
        /\ \E j \in touched : j > k
        /\ nfetch > 0

\* C4: every enrichment call (ticker lookup, price features, summarizer,
\* fundamentals) and every appended row of a pass comes after a non-empty
\* keyword match of the document fetched in that pass; a pass whose document
\* matches no keyword makes no call and appends no row.
C4_NoEnrichmentWithoutMatch ==
    /\ (iter.calls # {} \/ iter.appended \/ Len(all_results) # iter.rows0)
          => (MatchComputed /\ matched # <<>>)
    /\ (MatchComputed /\ matched = <<>>)
          => (iter.calls = {} /\ Len(all_results) = iter.rows0
              /\ pc \notin {"lookup", "price", "summ", "info"})

\* C4 witness: a fetched document matched no keyword and its pass ended with the
\* pacing delay, without any call, in a run that has enriched another filing.
C4_Witness ==
    /\ MatchComputed
    /\ matched = <<>>
    /\ iter.ended = "slept"
    /\ iter.calls = {}
    /\ all_results # <<>>

NoDuplicateRows(rows) == \A i, j \in 1..Len(rows) : rows[i] = rows[j] => i = j

\* C5: the persisted table never holds two rows identical across all columns.
C5_StoreHasNoDuplicateRows == store.exists => NoDuplicateRows(store.rows)

\* C6: merging into a store results that equal the rows it already holds
\* leaves the store as it was.
C6_MergeWithItselfIsIdentity ==
    [][(mpc = "first" /\ sAB.exists /\ to_csv(mA) = sAB.rows) => sAB' = sAB]_vars

CountRow(rows, r) == Cardinality({i \in 1..Len(rows) : rows[i] = r})

\* the same rows the same number of times, in any order
SameTable(s, t) ==
    /\ s.exists = t.exists
    /\ \A r \in Range(s.rows) \cup Range(t.rows) : CountRow(s.rows, r) = CountRow(t.rows, r)

\* C7: merging A then B yields the same persisted table as merging B then A.
C7_MergeOrderIndependent == mpc = "done" => SameTable(sAB, sBA)

\* C8: a document request that is not the first of the run comes after the
\* pacing delay has run since the request before it.
C8_DelayBetweenDocumentFetches ==
    [][(nfetch' = nfetch + 1 /\ nfetch > 0) => paced]_vars

\* C9: without an explicit date at most 7 index requests are made, none after
\* the first that succeeds, and when every one fails the run ends fatally with
\* nothing written.
C9_DiscoveryStopsAtFirstIndex ==
    date_source = NoDate =>
        /\ Len(idx_log) <= 7
        /\ \A k \in 1..(Len(idx_log) - 1) : idx_log[k] # "ok"
        /\ (pc \in {"frame", "write", "done", "crashed"}
              /\ \A k \in 1..Len(idx_log) : idx_log[k] = "http")
             => (~store.exists /\ pc \in {"frame", "crashed"})

\* a denominator the division must not be made with
BadDenominator(v) == v.t \in {"None", "nan"} \/ (v.t = "num" /\ v.n = 0)

\* an unknown feature
Unknown(v) == v.t \in {"None", "nan"}

\* C10: each of pct_1d, pct_3d, pct_before and volume_change is unknown when its
\* denominator (close[idx-1], close[idx], close[idx-1], mean(volume[idx-5:idx]))
\* is zero, unknown or out of range, and no feature is the outcome of a division
\* by zero or a fault.
C10_UnknownOnBadDenominator ==
    LET idx == IndexOf(hist.dates, fdate)
        close_prev == IF idx - 1 >= 0 THEN ILoc(hist.close, idx - 1) ELSE None
        close_0 == ILoc(hist.close, idx)
        avg == Mean(Slice(hist.volume, Max(0, idx - 5), idx))
    IN  (ppc \in {"computed", "done"} /\ idx # -1) =>
            /\ BadDenominator(close_prev) => (Unknown(feats.pct_1d) /\ Unknown(feats.pct_before))
            /\ BadDenominator(close_0) => Unknown(feats.pct_3d)
            /\ BadDenominator(avg) => Unknown(feats.volume_change)
            /\ \A f \in FeatureNames : feats[f].t \notin {"inf", "fault"}

\* C11: the matcher returns exactly the keywords of the list that occur in the
\* text as a substring when letter case is ignored on the text and on the
\* keyword, in the order of the list.
C11_CaseInsensitiveInListOrder ==
    kpc = "done" =>
        kfound = SelectSeq(kwlist, LAMBDA kw : Contains(Lower(ktext), Lower(kw)))

====
